---- MODULE Spec2Model ----
(***************************************************************************)
(* A model of replaceAlgos.c: the three page-replacement policies (LRU,    *)
(* FIFO, Clock) run reference by reference over a page trace, and the      *)
(* Monte Carlo driver (main) that accumulates and averages their fault     *)
(* counts.  Arrays are functions over 0..n-1, as in the C source.          *)
(***************************************************************************)
EXTENDS Integers, Sequences, FiniteSets, TLC

\* ------------------------------------------------------------- bounds ----
\* Length of a trace: TRACES in the source where it sizes data[] and bounds
\* the reference loops (scaled down).
TRACES == 5
\* Number of experiments: TRACES in the source where it bounds the loop of
\* main over the experiments and divides the sums (scaled down).
TRIALS == 2
\* The working-set sizes main tests (scaled down).
SET_SIZE_LOWER == 1
SET_SIZE_UPPER == 2
\* Page identifiers of the policy-level traces are 1..MaxPage.
MaxPage == 4
\* Working-set sizes of the policy-level runs are 1..MaxWss.
MaxWss == 3

\* ---------------------------------------------------------- constants ----
\* The "empty slot" sentinel.
INT_MIN == -2147483647 - 1

Pages == 1..MaxPage

\* The values normal(10, 2) is taken to return in the runs of main.
NormalValues == {9, 10, 11}

\* The divisor of the region offset in main: (int)(j/100).
RegionLen == 100

\* TRACES as the source defines it: the length of data[] in the full-size
\* run of the generation loop.
TRACES_FULL == 1000

\* In the full-size run of the generation loop the values of normal(10, 2)
\* repeat with this period.
SamplePeriod == 2

\* The region offset taken with the tens digit of j only.
GenValue_mod(jj, n) == 10 * ((jj \div 10) % 10) + n

\* Line 89: the value stored in data[j], n being what normal(10, 2) returns.
GenValue(jj, n) == 10 * (jj \div RegionLen) + n

\* A C array written as a tuple: element k of the array is s[k+1].
Arr(s) == [k \in 0..(Len(s) - 1) |-> s[k + 1]]

\* Number of elements of an array.
NumRefs(a) == Cardinality(DOMAIN a)

\* The trace of the textbook example (Belady's anomaly sequence).
RefTrace == Arr(<<1, 2, 3, 4, 1, 2, 5, 1, 2, 3, 4, 5>>)

\* ------------------------------------------------------------ helpers ----
\* arrayContains with its scan started at index 1.
arrayContains_from1(array, size, value) ==
    \E k \in 1..(size - 1) : array[k] = value

arrayContains(array, size, value) ==
    \E k \in 0..(size - 1) : array[k] = value

getIndex(array, size, value) ==
    IF \E k \in 0..(size - 1) : array[k] = value
    THEN CHOOSE k \in 0..(size - 1) :
            /\ array[k] = value
            /\ \A m \in 0..(k - 1) : array[m] # value
    ELSE -1

\* The array of n copies of v (the initialisation loops).
Filled(n, v) == [k \in 0..(n - 1) |-> v]

\* The locals of a policy function right after its initialisation loop.
InitState(w) ==
    [set |-> Filled(w, INT_MIN), size |-> 0, faults |-> 0, fifoIndex |-> 0,
     secondChance |-> Filled(w, 0), ub |-> FALSE]

\* ---------------------------------------------------------------- LRU ----
\* The backward scan stopped at the first resident page it meets.
LRUScan_first(s_set, w, d, j, c, ru) ==
    IF \E m \in 0..j : arrayContains(s_set, w, d[m])
    THEN [found |-> TRUE,
          lru |-> d[CHOOSE m \in 0..j :
                      /\ arrayContains(s_set, w, d[m])
                      /\ \A n \in (m + 1)..j : ~arrayContains(s_set, w, d[n])]]
    ELSE [found |-> FALSE, lru |-> INT_MIN]

\* The backward scan counting every resident reference, repeated or not.
RECURSIVE LRUScan_dups(_, _, _, _, _, _)
LRUScan_dups(s_set, w, d, j, c, ru) ==
    IF j < 0
    THEN [found |-> FALSE, lru |-> INT_MIN]
    ELSE IF arrayContains(s_set, w, d[j])
         THEN IF c + 1 = w
              THEN [found |-> TRUE, lru |-> d[j]]
              ELSE LRUScan_dups(s_set, w, d, j - 1, c + 1, ru)
         ELSE LRUScan_dups(s_set, w, d, j - 1, c, ru)

\* The backward scan stopped before index 0: for( j = i, c = 0; j > 0; j-- ).
RECURSIVE LRUScan_short(_, _, _, _, _, _)
LRUScan_short(s_set, w, d, j, c, ru) ==
    IF j < 1
    THEN [found |-> FALSE, lru |-> INT_MIN]
    ELSE IF arrayContains(s_set, w, d[j])
         THEN LET add == ~arrayContains(ru, w, d[j])
                  ru2 == IF add THEN [ru EXCEPT ![c] = d[j]] ELSE ru
                  c2  == IF add THEN c + 1 ELSE c
              IN  IF c2 = w
                  THEN [found |-> TRUE, lru |-> d[j]]
                  ELSE LRUScan_short(s_set, w, d, j - 1, c2, ru2)
         ELSE LRUScan_short(s_set, w, d, j - 1, c, ru)

\* The backward scan of LRU: for( j = i, c = 0; j >= 0; j-- ).  Yields the
\* page assigned to lru at the break, or found = FALSE when the loop runs off
\* the front of the trace and lru is left uninitialised.
RECURSIVE LRUScan(_, _, _, _, _, _)
LRUScan(s_set, w, d, j, c, ru) ==
    IF j < 0
    THEN [found |-> FALSE, lru |-> INT_MIN]
    ELSE IF arrayContains(s_set, w, d[j])
         THEN LET add == ~arrayContains(ru, w, d[j])
                  ru2 == IF add THEN [ru EXCEPT ![c] = d[j]] ELSE ru
                  c2  == IF add THEN c + 1 ELSE c
              IN  IF c2 = w
                  THEN [found |-> TRUE, lru |-> d[j]]
                  ELSE LRUScan(s_set, w, d, j - 1, c2, ru2)
         ELSE LRUScan(s_set, w, d, j - 1, c, ru)

\* LRU replacing the page in slot 0 whatever the scan finds.
LRUIter_slot0(s, w, d, k) ==
    IF arrayContains(s.set, w, d[k])
    THEN s
    ELSE IF s.size # w
         THEN [s EXCEPT !.set = [s.set EXCEPT ![s.size] = d[k]],
                        !.size = s.size + 1]
         ELSE [s EXCEPT !.set = [s.set EXCEPT ![0] = d[k]],
                        !.faults = s.faults + 1]

\* LRU filling the free slots from the last one down.
LRUIter_fillTop(s, w, d, k) ==
    IF arrayContains(s.set, w, d[k])
    THEN s
    ELSE IF s.size # w
         THEN [s EXCEPT !.set = [s.set EXCEPT ![w - 1 - s.size] = d[k]],
                        !.size = s.size + 1]
         ELSE LET scan == LRUScan(s.set, w, d, k, 0, Filled(w, INT_MIN))
                  c    == getIndex(s.set, w, scan.lru)
              IN  IF ~scan.found \/ c = -1
                  THEN [s EXCEPT !.ub = TRUE]
                  ELSE [s EXCEPT !.set = [s.set EXCEPT ![c] = d[k]],
                                 !.faults = s.faults + 1]

\* LRU replacing in load order at a cursor, every miss counted.
LRUIter_loadOrder(s, w, d, k) ==
    IF arrayContains(s.set, w, d[k])
    THEN s
    ELSE IF s.size # w
         THEN [s EXCEPT !.set = [s.set EXCEPT ![s.size] = d[k]],
                        !.size = s.size + 1,
                        !.faults = s.faults + 1]
         ELSE [s EXCEPT !.set = [s.set EXCEPT ![s.fifoIndex] = d[k]],
                        !.fifoIndex = IF s.fifoIndex + 1 = w THEN 0
                                      ELSE s.fifoIndex + 1,
                        !.faults = s.faults + 1]

\* One iteration of the reference loop of LRU.
LRUIter(s, w, d, k) ==
    IF arrayContains(s.set, w, d[k])
    THEN s
    ELSE IF s.size # w
         THEN [s EXCEPT !.set = [s.set EXCEPT ![s.size] = d[k]],
                        !.size = s.size + 1]
         ELSE LET scan == LRUScan(s.set, w, d, k, 0, Filled(w, INT_MIN))
                  c    == getIndex(s.set, w, scan.lru)
              IN  IF ~scan.found \/ c = -1
                  THEN [s EXCEPT !.ub = TRUE]
                  ELSE [s EXCEPT !.set = [s.set EXCEPT ![c] = d[k]],
                                 !.faults = s.faults + 1]

\* --------------------------------------------------------------- FIFO ----
\* FIFO counting a fault when it fills a free slot too.
FIFOIter_countFill(s, w, d, k) ==
    IF arrayContains(s.set, w, d[k])
    THEN s
    ELSE IF s.size # w
         THEN [s EXCEPT !.set = [s.set EXCEPT ![s.size] = d[k]],
                        !.size = s.size + 1,
                        !.faults = s.faults + 1]
         ELSE [s EXCEPT !.set = [s.set EXCEPT ![s.fifoIndex] = d[k]],
                        !.fifoIndex = IF s.fifoIndex + 1 = w THEN 0
                                      ELSE s.fifoIndex + 1,
                        !.faults = s.faults + 1]

\* FIFO with the cursor left where it is after an eviction.
FIFOIter_stuck(s, w, d, k) ==
    IF arrayContains(s.set, w, d[k])
    THEN s
    ELSE IF s.size # w
         THEN [s EXCEPT !.set = [s.set EXCEPT ![s.size] = d[k]],
                        !.size = s.size + 1]
         ELSE [s EXCEPT !.set = [s.set EXCEPT ![s.fifoIndex] = d[k]],
                        !.faults = s.faults + 1]

\* FIFO advancing the cursor when it fills a free slot as well.
FIFOIter_fillCursor(s, w, d, k) ==
    IF arrayContains(s.set, w, d[k])
    THEN s
    ELSE IF s.size # w
         THEN [s EXCEPT !.set = [s.set EXCEPT ![s.size] = d[k]],
                        !.size = s.size + 1,
                        !.fifoIndex = IF s.fifoIndex + 1 = w THEN 0
                                      ELSE s.fifoIndex + 1]
         ELSE [s EXCEPT !.set = [s.set EXCEPT ![s.fifoIndex] = d[k]],
                        !.fifoIndex = IF s.fifoIndex + 1 = w THEN 0
                                      ELSE s.fifoIndex + 1,
                        !.faults = s.faults + 1]

\* FIFO with the cursor never wrapped around.
FIFOIter_noWrap(s, w, d, k) ==
    IF arrayContains(s.set, w, d[k])
    THEN s
    ELSE IF s.size # w
         THEN [s EXCEPT !.set = [s.set EXCEPT ![s.size] = d[k]],
                        !.size = s.size + 1]
         ELSE [s EXCEPT !.set = [s.set EXCEPT ![s.fifoIndex] = d[k]],
                        !.fifoIndex = s.fifoIndex + 1,
                        !.faults = s.faults + 1]

\* One iteration of the reference loop of FIFO.
FIFOIter(s, w, d, k) ==
    IF arrayContains(s.set, w, d[k])
    THEN s
    ELSE IF s.size # w
         THEN [s EXCEPT !.set = [s.set EXCEPT ![s.size] = d[k]],
                        !.size = s.size + 1]
         ELSE [s EXCEPT !.set = [s.set EXCEPT ![s.fifoIndex] = d[k]],
                        !.fifoIndex = IF s.fifoIndex + 1 = w THEN 0
                                      ELSE s.fifoIndex + 1,
                        !.faults = s.faults + 1]

\* -------------------------------------------------------------- Clock ----
\* The sweep with the bits it passes left set: it stops at the first slot
\* whose bit is 0 and, when every bit is set, is still running after a whole
\* revolution (count w + 1 stands for that).
ClockSweep_noClear(sc, fi, w) ==
    IF \E n \in 0..(w - 1) : sc[(fi + n) % w] = 0
    THEN LET n == CHOOSE n \in 0..(w - 1) :
                     /\ sc[(fi + n) % w] = 0
                     /\ \A m \in 0..(n - 1) : sc[(fi + m) % w] # 0
         IN  [secondChance |-> sc, fifoIndex |-> (fi + n) % w, count |-> n]
    ELSE [secondChance |-> sc, fifoIndex |-> fi, count |-> w + 1]

\* The sweep of Clock: while( secondChance[fifoIndex] != 0 ).  Yields the
\* use-bits and the hand when the loop exits, and the number of iterations
\* the loop has made.
RECURSIVE ClockSweep(_, _, _)
ClockSweep(sc, fi, w) ==
    IF sc[fi] # 0
    THEN LET rest == ClockSweep([sc EXCEPT ![fi] = 0],
                                IF fi + 1 = w THEN 0 ELSE fi + 1, w)
         IN  [rest EXCEPT !.count = @ + 1]
    ELSE [secondChance |-> sc, fifoIndex |-> fi, count |-> 0]

\* Clock with faults++ inside the sweep loop as well.
ClockIter_sweepCount(s, w, d, k) ==
    IF arrayContains(s.set, w, d[k])
    THEN [s EXCEPT !.secondChance[getIndex(s.set, w, d[k])] = 1]
    ELSE IF s.size # w
         THEN [s EXCEPT !.set = [s.set EXCEPT ![s.size] = d[k]],
                        !.size = s.size + 1]
         ELSE LET sw == ClockSweep(s.secondChance, s.fifoIndex, w)
                  cleared == Cardinality({m \in 0..(w - 1) :
                                s.secondChance[m] # sw.secondChance[m]})
              IN  [s EXCEPT !.set = [s.set EXCEPT ![sw.fifoIndex] = d[k]],
                            !.secondChance = sw.secondChance,
                            !.fifoIndex = IF sw.fifoIndex + 1 = w THEN 0
                                          ELSE sw.fifoIndex + 1,
                            !.faults = s.faults + cleared + 1]

\* Clock giving a freshly loaded page its use-bit at once.
ClockIter_freshBit(s, w, d, k) ==
    IF arrayContains(s.set, w, d[k])
    THEN [s EXCEPT !.secondChance[getIndex(s.set, w, d[k])] = 1]
    ELSE IF s.size # w
         THEN [s EXCEPT !.set = [s.set EXCEPT ![s.size] = d[k]],
                        !.size = s.size + 1]
         ELSE LET sw == ClockSweep(s.secondChance, s.fifoIndex, w)
              IN  [s EXCEPT !.set = [s.set EXCEPT ![sw.fifoIndex] = d[k]],
                            !.secondChance = [sw.secondChance EXCEPT
                                                 ![sw.fifoIndex] = 1],
                            !.fifoIndex = IF sw.fifoIndex + 1 = w THEN 0
                                          ELSE sw.fifoIndex + 1,
                            !.faults = s.faults + 1]

\* Clock advancing the hand on a hit.
ClockIter_hitAdvance(s, w, d, k) ==
    IF arrayContains(s.set, w, d[k])
    THEN [s EXCEPT !.secondChance[getIndex(s.set, w, d[k])] = 1,
                   !.fifoIndex = IF s.fifoIndex + 1 = w THEN 0
                                 ELSE s.fifoIndex + 1]
    ELSE IF s.size # w
         THEN [s EXCEPT !.set = [s.set EXCEPT ![s.size] = d[k]],
                        !.size = s.size + 1]
         ELSE LET sw == ClockSweep(s.secondChance, s.fifoIndex, w)
              IN  [s EXCEPT !.set = [s.set EXCEPT ![sw.fifoIndex] = d[k]],
                            !.secondChance = sw.secondChance,
                            !.fifoIndex = IF sw.fifoIndex + 1 = w THEN 0
                                          ELSE sw.fifoIndex + 1,
                            !.faults = s.faults + 1]

\* One iteration of the reference loop of Clock.
ClockIter(s, w, d, k) ==
    IF arrayContains(s.set, w, d[k])
    THEN [s EXCEPT !.secondChance[getIndex(s.set, w, d[k])] = 1]
    ELSE IF s.size # w
         THEN [s EXCEPT !.set = [s.set EXCEPT ![s.size] = d[k]],
                        !.size = s.size + 1]
         ELSE LET sw == ClockSweep(s.secondChance, s.fifoIndex, w)
              IN  [s EXCEPT !.set = [s.set EXCEPT ![sw.fifoIndex] = d[k]],
                            !.secondChance = sw.secondChance,
                            !.fifoIndex = IF sw.fifoIndex + 1 = w THEN 0
                                          ELSE sw.fifoIndex + 1,
                            !.faults = s.faults + 1]

\* ------------------------------------------------- whole policy calls ----
Iter(a, s, w, d, k) ==
    CASE a = "LRU"   -> LRUIter(s, w, d, k)
      [] a = "FIFO"  -> FIFOIter(s, w, d, k)
      [] a = "Clock" -> ClockIter(s, w, d, k)

\* The reference loop from iteration k on: for( i = k; i < TRACES; i++ ).
RECURSIVE RunFrom(_, _, _, _, _)
RunFrom(a, s, w, d, k) ==
    IF k >= NumRefs(d) \/ s.ub
    THEN s
    ELSE RunFrom(a, Iter(a, s, w, d, k), w, d, k + 1)

\* The value returned by each policy function.
LRU(w, d)   == RunFrom("LRU", InitState(w), w, d, 0).faults
FIFO(w, d)  == RunFrom("FIFO", InitState(w), w, d, 0).faults
Clock(w, d) == RunFrom("Clock", InitState(w), w, d, 0).faults

\* ---------------------------------------------------------- variables ----
VARIABLES
    alg,            \* the policy function being executed
    wss, data,      \* its parameters (main's wss and data[])
    i,              \* its loop index
    set, size, faults, fifoIndex, secondChance,   \* its locals
    ub,             \* LRU used lru uninitialised (undefined behaviour)
    pc,             \* "loop" inside the reference loop, "done" after return
    ret,            \* the returned value
    event,          \* branch taken by the last iteration
    misses,         \* references so far that missed the frame
    loadTime,       \* per slot: the iteration that last wrote it, -1 if none
    recency,        \* reference LRU: resident pages, most recent first
    refFaults,      \* reference LRU: its fault count
    mpc,            \* position of main
    trial,          \* main's i: the experiment being run
    j,              \* main's j: the index of the generation loop
    LRUResults, FIFOResults, ClockResults,      \* main's accumulators
    status,         \* what main returned: <<>> while it runs, then <<0>> or <<-1>>
    out,            \* rows written to the results file
    file,           \* the results file: "unopened", "open", "null", "closed"
    diag,           \* the failure message has been printed
    expSum,         \* per policy and size: sum of the fault counts of the
                    \* traces generated so far
    contrib         \* per policy and size: number of accumulations made

pvars == <<alg, i, set, size, faults, fifoIndex, secondChance, ub, pc, ret,
           event, misses, loadTime, recency, refFaults>>
mvars == <<mpc, trial, j, LRUResults, FIFOResults, ClockResults, status, out,
           file, diag,
           expSum, contrib>>
vars == <<wss, data, pvars, mvars>>

Policies == {"LRU", "FIFO", "Clock"}

\* The locals of the running policy as one record.
Cur == [set |-> set, size |-> size, faults |-> faults, fifoIndex |-> fifoIndex,
        secondChance |-> secondChance, ub |-> ub]

\* Page identifiers are compared for equality only, so every trace behaves
\* as its renaming in order of first occurrence: the first page is 1 and a
\* new page is one more than the largest page seen.
Canonical(d) ==
    \A k \in DOMAIN d :
        \/ d[k] = 1
        \/ \E m \in 0..(k - 1) : d[m] >= d[k] - 1

\* main's locals before it runs (lines 72-76); idle in the policy-level runs.
MainIdle ==
    /\ mpc = "idle"
    /\ trial = 0
    /\ j = 0
    /\ LRUResults = Filled(SET_SIZE_UPPER + 1, 0)
    /\ FIFOResults = Filled(SET_SIZE_UPPER + 1, 0)
    /\ ClockResults = Filled(SET_SIZE_UPPER + 1, 0)
    /\ status = <<>>
    /\ out = <<>>
    /\ file = "unopened"
    /\ diag = FALSE
    /\ expSum = [p \in Policies |-> Filled(SET_SIZE_UPPER + 1, 0)]
    /\ contrib = [p \in Policies |-> Filled(SET_SIZE_UPPER + 1, 0)]

\* A policy function entered with parameters w and d, after its
\* initialisation loop.
PolicyEntry(w) ==
    /\ i = 0
    /\ set = InitState(w).set
    /\ size = 0
    /\ faults = 0
    /\ fifoIndex = 0
    /\ secondChance = InitState(w).secondChance
    /\ ub = FALSE
    /\ ret = -1
    /\ event = "init"
    /\ misses = 0
    /\ loadTime = Filled(w, -1)
    /\ recency = <<>>
    /\ refFaults = 0

\* One call of one policy on one trace.
Init ==
    /\ alg \in Policies
    /\ wss \in 1..MaxWss
    /\ data \in {d \in [0..(TRACES - 1) -> Pages] : Canonical(d)} \cup {RefTrace}
    /\ pc = "loop"
    /\ PolicyEntry(wss)
    /\ MainIdle

\* The branch of the loop body the current reference takes.
Branch ==
    IF arrayContains(set, wss, data[i]) THEN "hit"
    ELSE IF size # wss THEN "fill" ELSE "fault"

\* The reference LRU: a live recency list with move-to-front.
Without(q, p) == SelectSeq(q, LAMBDA x : x # p)
Front(q) == SubSeq(q, 1, Len(q) - 1)
RefTouch(q, w, p) ==
    IF \E k \in 1..Len(q) : q[k] = p THEN <<p>> \o Without(q, p)
    ELSE IF Len(q) < w THEN <<p>> \o q
    ELSE <<p>> \o Front(q)
RefFault(q, w, p) ==
    /\ \A k \in 1..Len(q) : q[k] # p
    /\ Len(q) >= w

\* One iteration of the running policy's reference loop.
Step ==
    /\ pc = "loop"
    /\ ~ub
    /\ i < NumRefs(data)
    /\ LET s == Iter(alg, Cur, wss, data, i)
       IN  /\ set' = s.set
           /\ size' = s.size
           /\ faults' = s.faults
           /\ fifoIndex' = s.fifoIndex
           /\ secondChance' = s.secondChance
           /\ ub' = s.ub
           /\ loadTime' = [k \in 0..(wss - 1) |->
                              IF s.set[k] # set[k] THEN i ELSE loadTime[k]]
    /\ event' = Branch
    /\ misses' = IF Branch = "hit" THEN misses ELSE misses + 1
    /\ recency' = RefTouch(recency, wss, data[i])
    /\ refFaults' = IF RefFault(recency, wss, data[i])
                    THEN refFaults + 1 ELSE refFaults
    /\ i' = i + 1
    /\ UNCHANGED <<alg, wss, data, pc, ret, mvars>>

LRUStep ==
    /\ alg = "LRU"
    /\ Step

FIFOStep ==
    /\ alg = "FIFO"
    /\ Step

ClockStep ==
    /\ alg = "Clock"
    /\ Step

\* return faults;
Return ==
    /\ pc = "loop"
    /\ ~ub
    /\ i >= NumRefs(data)
    /\ pc' = "done"
    /\ ret' = faults
    /\ UNCHANGED <<alg, wss, data, i, set, size, faults, fifoIndex,
                   secondChance, ub, event, misses, loadTime, recency,
                   refFaults, mvars>>

Next ==
    \/ LRUStep
    \/ FIFOStep
    \/ ClockStep
    \/ Return

Spec == Init /\ [][Next]_vars

\* --------------------------------------------------------------- main ----
\* C integer division: the quotient truncated toward zero.
CDiv(a, b) == IF a >= 0 THEN a \div b ELSE -((-a) \div b)

\* The sum overwritten instead of added to.
Accumulate_assign(results, w, f) == [results EXCEPT ![w] = f]

\* results[w] += f;
Accumulate(results, w, f) == [results EXCEPT ![w] = @ + f]

\* results[w] /= TRACES;
Average(results, w) == [results EXCEPT ![w] = CDiv(@, TRIALS)]

\* The sizes of the loops for( wss = SET_SIZE_LOWER; wss <= SET_SIZE_UPPER; wss++ ).
Sizes == SET_SIZE_LOWER..SET_SIZE_UPPER

\* The state of main after line 79, its arrays zeroed; data[] is not yet
\* written and is not read before the first generation loop fills it.
MainInit ==
    /\ mpc = "gen"
    /\ trial = 0
    /\ j = 0
    /\ wss = SET_SIZE_LOWER
    /\ data = Filled(TRACES, 0)
    /\ LRUResults = Filled(SET_SIZE_UPPER + 1, 0)
    /\ FIFOResults = Filled(SET_SIZE_UPPER + 1, 0)
    /\ ClockResults = Filled(SET_SIZE_UPPER + 1, 0)
    /\ status = <<>>
    /\ out = <<>>
    /\ file = "unopened"
    /\ diag = FALSE
    /\ expSum = [p \in Policies |-> Filled(SET_SIZE_UPPER + 1, 0)]
    /\ contrib = [p \in Policies |-> Filled(SET_SIZE_UPPER + 1, 0)]
    /\ alg = "none"
    /\ pc = "none"
    /\ PolicyEntry(SET_SIZE_LOWER)

\* Lines 87-90: one iteration of the generation loop,
\* data[j] = ( 10 * ((int)(j/100)) ) + normal(10, 2); after the last one the
\* size loop starts.
Generate ==
    /\ mpc = "gen"
    /\ j < TRACES
    /\ \E n \in NormalValues :
          data' = [data EXCEPT ![j] = GenValue(j, n)]
    /\ j' = j + 1
    /\ IF j + 1 < TRACES
       THEN /\ mpc' = "gen"
            /\ wss' = wss
            /\ expSum' = expSum
       ELSE /\ wss' = SET_SIZE_LOWER
            /\ mpc' = IF SET_SIZE_LOWER <= SET_SIZE_UPPER THEN "lru" ELSE "next"
            /\ expSum' = [p \in Policies |-> [w \in 0..SET_SIZE_UPPER |->
                  IF w \in Sizes
                  THEN expSum[p][w] + RunFrom(p, InitState(w), w, data', 0).faults
                  ELSE expSum[p][w]]]
    /\ UNCHANGED <<file, diag, pvars, trial, LRUResults, FIFOResults, ClockResults,
                   status, out, contrib>>

\* Line 95: LRUResults[wss] += LRU(wss, data);
CallLRU ==
    /\ mpc = "lru"
    /\ LRUResults' = Accumulate(LRUResults, wss, LRU(wss, data))
    /\ contrib' = [contrib EXCEPT !["LRU"][wss] = @ + 1]
    /\ mpc' = "fifo"
    /\ UNCHANGED <<file, diag, j, wss, data, pvars, trial, FIFOResults, ClockResults,
                   status, out, expSum>>

\* Line 96: FIFOResults[wss] += FIFO(wss, data);
CallFIFO ==
    /\ mpc = "fifo"
    /\ FIFOResults' = Accumulate(FIFOResults, wss, FIFO(wss, data))
    /\ contrib' = [contrib EXCEPT !["FIFO"][wss] = @ + 1]
    /\ mpc' = "clock"
    /\ UNCHANGED <<file, diag, j, wss, data, pvars, trial, LRUResults, ClockResults,
                   status, out, expSum>>

\* Line 97: ClockResults[wss] += Clock(wss, data); then wss++ and the test
\* of the size loop.
CallClock ==
    /\ mpc = "clock"
    /\ ClockResults' = Accumulate(ClockResults, wss, Clock(wss, data))
    /\ contrib' = [contrib EXCEPT !["Clock"][wss] = @ + 1]
    /\ wss' = wss + 1
    /\ mpc' = IF wss + 1 <= SET_SIZE_UPPER THEN "lru" ELSE "next"
    /\ UNCHANGED <<file, diag, j, data, pvars, trial, LRUResults, FIFOResults, status, out,
                   expSum>>

\* Line 82: i++ and the test of the experiment loop.
NextTrial ==
    /\ mpc = "next"
    /\ trial' = trial + 1
    /\ IF trial + 1 < TRIALS
       THEN /\ mpc' = "gen"
            /\ j' = 0
            /\ wss' = wss
       ELSE /\ wss' = SET_SIZE_LOWER
            /\ j' = j
            /\ mpc' = IF SET_SIZE_LOWER <= SET_SIZE_UPPER THEN "avg" ELSE "open"
    /\ UNCHANGED <<file, diag, data, pvars, LRUResults, FIFOResults, ClockResults,
                   status, out, expSum, contrib>>

\* Lines 102-106: one iteration of the averaging loop.
AverageStep ==
    /\ mpc = "avg"
    /\ LRUResults' = Average(LRUResults, wss)
    /\ FIFOResults' = Average(FIFOResults, wss)
    /\ ClockResults' = Average(ClockResults, wss)
    /\ wss' = wss + 1
    /\ mpc' = IF wss + 1 <= SET_SIZE_UPPER THEN "avg" ELSE "open"
    /\ UNCHANGED <<file, diag, j, data, pvars, trial, status, out, expSum, contrib>>

\* Lines 119-129: fopen succeeds and the header is written.
OpenOK ==
    /\ mpc = "open"
    /\ file' = "open"
    /\ out' = <<<<"wss", "LRU", "FIFO", "Clock">>>>
    /\ wss' = SET_SIZE_LOWER
    /\ mpc' = "rows"
    /\ UNCHANGED <<diag, j, data, pvars, trial, LRUResults, FIFOResults, ClockResults,
                   status, expSum, contrib>>

\* fopen fails and main returns 0 all the same, without a message.
OpenFail_silent ==
    /\ mpc = "open"
    /\ file' = "null"
    /\ status' = <<0>>
    /\ mpc' = "exit"
    /\ UNCHANGED <<diag, j, wss, data, pvars, trial, LRUResults, FIFOResults,
                   ClockResults, out, expSum, contrib>>

\* Lines 119-126: fopen fails; the message is printed and main returns -1.
OpenFail ==
    /\ mpc = "open"
    /\ file' = "null"
    /\ diag' = TRUE
    /\ status' = <<-1>>
    /\ mpc' = "exit"
    /\ UNCHANGED <<j, wss, data, pvars, trial, LRUResults, FIFOResults,
                   ClockResults, out, expSum, contrib>>

\* Lines 132-138: one row of the results.
WriteRow ==
    /\ mpc = "rows"
    /\ wss <= SET_SIZE_UPPER
    /\ out' = Append(out, <<wss, LRUResults[wss], FIFOResults[wss],
                            ClockResults[wss]>>)
    /\ wss' = wss + 1
    /\ UNCHANGED <<file, diag, j, data, pvars, mpc, trial, LRUResults, FIFOResults,
                   ClockResults, status, expSum, contrib>>

\* Lines 141-144: fclose and return 0.
Exit ==
    /\ mpc = "rows"
    /\ wss > SET_SIZE_UPPER
    /\ file' = "closed"
    /\ status' = <<0>>
    /\ mpc' = "exit"
    /\ UNCHANGED <<diag, j, wss, data, pvars, trial, LRUResults, FIFOResults,
                   ClockResults, out, expSum, contrib>>

MainNext ==
    \/ Generate
    \/ CallLRU
    \/ CallFIFO
    \/ CallClock
    \/ NextTrial
    \/ AverageStep
    \/ OpenOK
    \/ OpenFail
    \/ WriteRow
    \/ Exit

\* The whole program.
MainSpec == MainInit /\ [][MainNext]_vars

\* ------------------------------------------- the full-size generation ----
\* main at the first generation loop, with data[] of its real length.
GenInit ==
    /\ mpc = "gen"
    /\ trial = 0
    /\ j = 0
    /\ wss = SET_SIZE_LOWER
    /\ data = Filled(TRACES_FULL, 0)
    /\ LRUResults = Filled(SET_SIZE_UPPER + 1, 0)
    /\ FIFOResults = Filled(SET_SIZE_UPPER + 1, 0)
    /\ ClockResults = Filled(SET_SIZE_UPPER + 1, 0)
    /\ status = <<>>
    /\ out = <<>>
    /\ file = "unopened"
    /\ diag = FALSE
    /\ expSum = [p \in Policies |-> Filled(SET_SIZE_UPPER + 1, 0)]
    /\ contrib = [p \in Policies |-> Filled(SET_SIZE_UPPER + 1, 0)]
    /\ alg = "none"
    /\ pc = "none"
    /\ PolicyEntry(SET_SIZE_LOWER)

\* Lines 87-90 at full size: one iteration of the generation loop; the run
\* is followed up to the end of the loop.
GenerateFull ==
    /\ mpc = "gen"
    /\ j < TRACES_FULL
    /\ \E n \in NormalValues :
          /\ j >= SamplePeriod =>
                data[j - SamplePeriod] = GenValue(j - SamplePeriod, n)
          /\ data' = [data EXCEPT ![j] = GenValue(j, n)]
    /\ j' = j + 1
    /\ mpc' = IF j + 1 < TRACES_FULL THEN "gen" ELSE "generated"
    /\ UNCHANGED <<file, diag, wss, pvars, trial, LRUResults, FIFOResults, ClockResults,
                   status, out, expSum, contrib>>

GenNext ==
    \/ GenerateFull

GenSpec == GenInit /\ [][GenNext]_vars

\* -------------------------------------- one experiment, run by run ----
\* The first experiment of main with its policy calls executed iteration by
\* iteration: the call creates the locals of the policy function, the
\* reference loop runs, the function returns and main adds the value to its
\* accumulator.

\* A policy function is entered with main's wss and data[]: its locals are
\* created and its initialisation loop has run.
Enter(a) ==
    /\ pc = "none"
    /\ alg' = a
    /\ pc' = "loop"
    /\ i' = 0
    /\ set' = InitState(wss).set
    /\ size' = 0
    /\ faults' = 0
    /\ fifoIndex' = 0
    /\ secondChance' = InitState(wss).secondChance
    /\ ub' = FALSE
    /\ ret' = -1
    /\ event' = "init"
    /\ misses' = 0
    /\ loadTime' = Filled(wss, -1)
    /\ recency' = <<>>
    /\ refFaults' = 0
    /\ UNCHANGED <<wss, data, mvars>>

\* The value returned by the policy function that has just run, added to
\* its accumulator: results[wss] += ret.
Add(a, results) ==
    /\ pc = "done"
    /\ alg = a
    /\ results' = Accumulate(results, wss, ret)
    /\ contrib' = [contrib EXCEPT ![a][wss] = @ + 1]
    /\ pc' = "none"
    /\ UNCHANGED <<alg, i, set, size, faults, fifoIndex, secondChance, ub, ret,
                   event, misses, loadTime, recency, refFaults>>
    /\ UNCHANGED <<data, trial, j, status, out, file, diag, expSum>>

\* Line 95, the call: LRU(wss, data).
EnterLRU ==
    /\ mpc = "lru"
    /\ Enter("LRU")

\* Line 95, the assignment: LRUResults[wss] += (the value returned).
AddLRU ==
    /\ mpc = "lru"
    /\ Add("LRU", LRUResults)
    /\ mpc' = "fifo"
    /\ UNCHANGED <<wss, FIFOResults, ClockResults>>

\* FIFO with faults and fifoIndex kept from the call before.
EnterFIFO_keep ==
    /\ mpc = "fifo"
    /\ pc = "none"
    /\ alg' = "FIFO"
    /\ pc' = "loop"
    /\ i' = 0
    /\ set' = InitState(wss).set
    /\ size' = 0
    /\ secondChance' = InitState(wss).secondChance
    /\ ub' = FALSE
    /\ ret' = -1
    /\ event' = "init"
    /\ misses' = 0
    /\ loadTime' = Filled(wss, -1)
    /\ recency' = <<>>
    /\ refFaults' = 0
    /\ UNCHANGED <<faults, fifoIndex, wss, data, mvars>>

\* Line 96, the call: FIFO(wss, data).
EnterFIFO ==
    /\ mpc = "fifo"
    /\ Enter("FIFO")

\* The value returned by FIFO added to the cell of the upper bound.
AddFIFO_upperCell ==
    /\ mpc = "fifo"
    /\ pc = "done"
    /\ alg = "FIFO"
    /\ FIFOResults' = Accumulate(FIFOResults, SET_SIZE_UPPER, ret)
    /\ contrib' = [contrib EXCEPT !["FIFO"][SET_SIZE_UPPER] = @ + 1]
    /\ pc' = "none"
    /\ mpc' = "clock"
    /\ UNCHANGED <<alg, i, set, size, faults, fifoIndex, secondChance, ub, ret,
                   event, misses, loadTime, recency, refFaults>>
    /\ UNCHANGED <<data, trial, j, status, out, file, diag, expSum>>
    /\ UNCHANGED <<wss, LRUResults, ClockResults>>

\* Line 96, the assignment: FIFOResults[wss] += (the value returned).
AddFIFO ==
    /\ mpc = "fifo"
    /\ Add("FIFO", FIFOResults)
    /\ mpc' = "clock"
    /\ UNCHANGED <<wss, LRUResults, ClockResults>>

\* Line 97, the call: Clock(wss, data).
EnterClock ==
    /\ mpc = "clock"
    /\ Enter("Clock")

\* Line 97, the assignment: ClockResults[wss] += (the value returned); then
\* wss++ and the test of the size loop.
AddClock ==
    /\ mpc = "clock"
    /\ Add("Clock", ClockResults)
    /\ wss' = wss + 1
    /\ mpc' = IF wss + 1 <= SET_SIZE_UPPER THEN "lru" ELSE "next"
    /\ UNCHANGED <<LRUResults, FIFOResults>>

TrialNext ==
    \/ Generate
    \/ EnterLRU
    \/ LRUStep
    \/ AddLRU
    \/ EnterFIFO
    \/ FIFOStep
    \/ AddFIFO
    \/ EnterClock
    \/ ClockStep
    \/ AddClock
    \/ Return

TrialSpec == MainInit /\ [][TrialNext]_vars

\* --------------------------------------------------------- properties ----
\* The pages of the first n references of the trace.
Seen(n) == {data[k] : k \in 0..(n - 1)}

\* The number of distinct pages of the trace.
Distinct == Cardinality(Seen(NumRefs(data)))

\* The occupied slots and the resident pages of the frame.
Occupied == {k \in 0..(wss - 1) : set[k] # INT_MIN}
Resident == {set[k] : k \in Occupied}

\* The current reference misses; the frame is full.
Miss == data[i] \notin Resident
Full == Cardinality(Occupied) = wss

\* The running policy has just executed an iteration of its loop.
Stepped == pc = "loop" /\ i' = i + 1

\* C1 as stated: when the trace has no more distinct pages than the frame has
\* slots, the returned fault count is the number of distinct pages.
C1_Original ==
    (pc = "done" /\ Distinct <= wss) => ret = Distinct

\* C1 as the code has it: when the trace has no more distinct pages than the
\* frame has slots, every policy counts no fault at all, at any point of the
\* run and at return; the references that miss are exactly the first
\* references of the pages, one per distinct page.
C1_NoFaultWhenFits ==
    (pc # "none" /\ Distinct <= wss) =>
        /\ faults = 0
        /\ misses = Cardinality(Seen(i))
        /\ Resident = Seen(i)
        /\ pc = "done" => (ret = 0 /\ misses = Distinct)

C1_Witness ==
    /\ pc = "done"
    /\ wss >= 2
    /\ Distinct = wss
    /\ NumRefs(data) > Distinct
    /\ ret = 0
    /\ misses = wss

\* C2: the fault counter of every policy stays within [0, T]: it is at most
\* the number of references processed, the returned value is in [0, T], and
\* an iteration adds 0 or 1 to it.
C2_BoundedFaults ==
    /\ [](pc # "none" =>
            /\ 0 <= faults
            /\ faults <= i
            /\ i <= NumRefs(data)
            /\ pc = "done" => (ret = faults /\ ret \in 0..NumRefs(data)))
    /\ [][faults' = faults \/ faults' = faults + 1]_vars

C2_Witness ==
    /\ pc = "done"
    /\ ret >= 2
    /\ ret < NumRefs(data)
    /\ event = "hit"

\* C3: on the trace 1,2,3,4,1,2,5,1,2,3,4,5 with three slots FIFO returns 6,
\* LRU returns 7 and Clock returns 7.
C3_ReferenceVector ==
    (pc = "done" /\ data = RefTrace /\ wss = 3) =>
        /\ alg = "FIFO" => ret = 6
        /\ alg = "LRU" => ret = 7
        /\ alg = "Clock" => ret = 7

C3_Witness ==
    /\ pc = "done"
    /\ data = RefTrace
    /\ wss = 3
    /\ alg = "Clock"
    /\ ret = 7

\* C8: in every state of a policy run at most wss slots are occupied, their
\* number is size, and no page is in two occupied slots.
C8_FrameInvariant ==
    pc # "none" =>
        /\ Cardinality(Occupied) <= wss
        /\ size = Cardinality(Occupied)
        /\ \A a, b \in Occupied : a # b => set[a] # set[b]

C8_Witness ==
    /\ pc = "loop"
    /\ wss >= 2
    /\ size = wss
    /\ faults >= 1
    /\ event = "hit"

\* The index of the last reference to page p among the first n references,
\* -1 when there is none.
LastRef(p, n) ==
    IF \E k \in 0..(n - 1) : data[k] = p
    THEN CHOOSE k \in 0..(n - 1) :
            /\ data[k] = p
            /\ \A m \in (k + 1)..(n - 1) : data[m] # p
    ELSE -1

\* The slots holding the resident page referenced longest ago.
LeastRecentSlots ==
    {c \in Occupied :
        \A k \in Occupied : LastRef(set[c], i) <= LastRef(set[k], i)}

\* C4: when LRU misses with the frame full, the slot it overwrites is the one
\* of the resident page whose last reference before i is the oldest; that
\* slot receives trace[i], the other slots are unchanged and the fault count
\* grows by 1.
C4_LRUVictim ==
    [][(alg = "LRU" /\ Stepped /\ Miss /\ Full) =>
          /\ \A c \in Occupied : LastRef(set[c], i) >= 0
          /\ Cardinality(LeastRecentSlots) = 1
          /\ \E c \in LeastRecentSlots : set' = [set EXCEPT ![c] = data[i]]
          /\ faults' = faults + 1]_vars

C4_Witness ==
    /\ alg = "LRU"
    /\ wss = 3
    /\ event = "fault"
    /\ faults = 2
    /\ data # RefTrace
    /\ \E k \in 0..(wss - 1) : loadTime[k] = i - 1 /\ k # 0

\* C5: when FIFO misses with the frame full it overwrites the slot at the
\* cursor, which holds the page loaded earliest; the first eviction is of
\* slot 0; the cursor moves by 1 modulo wss on an eviction and on no other
\* iteration.
C5_FIFOOrder ==
    [][(alg = "FIFO" /\ Stepped) =>
          IF Miss /\ Full
          THEN /\ set' = [set EXCEPT ![fifoIndex] = data[i]]
               /\ \A k \in 0..(wss - 1) :
                     k # fifoIndex => loadTime[fifoIndex] < loadTime[k]
               /\ faults = 0 => fifoIndex = 0
               /\ fifoIndex' = (fifoIndex + 1) % wss
          ELSE fifoIndex' = fifoIndex]_vars

C5_Witness ==
    /\ alg = "FIFO"
    /\ wss = 2
    /\ event = "fault"
    /\ faults = 3
    /\ fifoIndex = 1
    /\ data # RefTrace

\* The number of slots the hand of Clock passes before it stops: the
\* distance from the hand to the first slot with use-bit 0, a whole
\* revolution when every bit is set.
SweepLen ==
    IF \E n \in 0..(wss - 1) : secondChance[(fifoIndex + n) % wss] = 0
    THEN CHOOSE n \in 0..(wss - 1) :
            /\ secondChance[(fifoIndex + n) % wss] = 0
            /\ \A m \in 0..(n - 1) : secondChance[(fifoIndex + m) % wss] # 0
    ELSE wss

\* The slots the hand passes and the slot it stops at.
Passed == {(fifoIndex + n) % wss : n \in 0..(SweepLen - 1)}
Evicted == (fifoIndex + SweepLen) % wss

\* C6: when Clock misses with the frame full it clears the use-bit of the
\* slots the hand passes, overwrites the first slot met whose use-bit is 0
\* with trace[i] and leaves its use-bit 0, leaves the hand one slot past it,
\* and leaves the use-bits of the slots not passed as they were.
C6_ClockEviction ==
    [][(alg = "Clock" /\ Stepped /\ Miss /\ Full) =>
          /\ set' = [set EXCEPT ![Evicted] = data[i]]
          /\ secondChance' = [k \in 0..(wss - 1) |->
                                 IF k \in Passed THEN 0 ELSE secondChance[k]]
          /\ secondChance'[Evicted] = 0
          /\ fifoIndex' = (Evicted + 1) % wss
          /\ faults' = faults + 1]_vars

C6_Witness ==
    /\ alg = "Clock"
    /\ wss = 2
    /\ event = "fault"
    /\ faults = 1
    /\ fifoIndex = 0
    /\ loadTime[1] = i - 1
    /\ loadTime[0] = 0
    /\ secondChance = (0 :> 0 @@ 1 :> 0)
    /\ data # RefTrace

\* C7: a reference to a resident page leaves the fault count, the frame, the
\* occupancy count and the cursor as they are; under LRU and FIFO nothing
\* else changes either, under Clock the use-bit of the slot of the page
\* becomes 1 and the other use-bits keep their value.
C7_HitIdempotent ==
    [][(Stepped /\ ~Miss) =>
          /\ faults' = faults
          /\ set' = set
          /\ size' = size
          /\ fifoIndex' = fifoIndex
          /\ alg # "Clock" => secondChance' = secondChance
          /\ alg = "Clock" =>
                \E c \in Occupied :
                    /\ set[c] = data[i]
                    /\ secondChance' = [secondChance EXCEPT ![c] = 1]]_vars

C7_Witness ==
    /\ alg = "Clock"
    /\ event = "hit"
    /\ faults >= 1
    /\ fifoIndex = 1
    /\ i >= 2
    /\ data[i - 1] = data[i - 2]
    /\ \E c \in Occupied : set[c] = data[i - 1] /\ secondChance[c] = 1

\* The pages of the recency list of the reference LRU.
Listed == {recency[k] : k \in 1..Len(recency)}

\* C9: the rescanning LRU and the LRU that keeps a recency list agree: they
\* hold the same pages and have counted the same faults in every state, and
\* at every fault the page the program replaces is the last of the list.
C9_LRUEquivalence ==
    /\ [](alg = "LRU" => (faults = refFaults /\ Resident = Listed))
    /\ [][(alg = "LRU" /\ Stepped) =>
             /\ (faults' = faults + 1) <=> RefFault(recency, wss, data[i])
             /\ faults' = faults + 1 =>
                   \E c \in Occupied :
                       /\ set[c] = recency[Len(recency)]
                       /\ set' = [set EXCEPT ![c] = data[i]]]_vars

C9_Witness ==
    /\ alg = "LRU"
    /\ pc = "done"
    /\ wss = 3
    /\ ret = 2
    /\ refFaults = 2
    /\ Len(recency) = 3
    /\ data # RefTrace

\* C10: once main has averaged, every size from the lower to the upper bound
\* holds, for every policy, the floor of (the sum over the experiments of the
\* policy's fault count on the experiment's trace) / (number of experiments);
\* every (policy, size) pair has been accumulated once per experiment; the
\* cells below the lower bound are never accumulated into and stay 0.
C10_Averaging ==
    mpc # "idle" =>
        /\ \A w \in 0..(SET_SIZE_LOWER - 1) :
              /\ LRUResults[w] = 0 /\ FIFOResults[w] = 0 /\ ClockResults[w] = 0
              /\ \A p \in Policies : contrib[p][w] = 0
        /\ \A w \in Sizes : \A p \in Policies :
              contrib[p][w] \in {trial, trial + 1} /\ contrib[p][w] <= TRIALS
        /\ mpc \in {"open", "rows", "exit"} =>
              \A w \in Sizes :
                  /\ \A p \in Policies : contrib[p][w] = TRIALS
                  /\ LRUResults[w] = expSum["LRU"][w] \div TRIALS
                  /\ FIFOResults[w] = expSum["FIFO"][w] \div TRIALS
                  /\ ClockResults[w] = expSum["Clock"][w] \div TRIALS

C10_Witness ==
    /\ mpc = "exit"
    /\ status = <<0>>
    /\ trial = TRIALS
    /\ expSum["LRU"][SET_SIZE_UPPER] % TRIALS # 0
    /\ LRUResults[SET_SIZE_UPPER] >= 1
    /\ LRUResults[SET_SIZE_UPPER] < FIFOResults[SET_SIZE_UPPER]
    /\ Len(out) = SET_SIZE_UPPER - SET_SIZE_LOWER + 2

\* The region of index k when a trace of length n is cut into 10 regions of
\* n/10 references.
Region(k, n) == k \div (n \div 10)

\* The value stored at index k of a trace of length n is 10 times the region
\* of k plus one value of normal, the region is one of 0..9 and is not below
\* the region of the index before.
RegionValue(k, n) ==
    /\ Region(k, n) \in 0..9
    /\ data[k] - 10 * Region(k, n) \in NormalValues
    /\ k > 0 => Region(k - 1, n) <= Region(k, n)

\* C11: every value the generation loop stores is 10 times the region of its
\* index plus one value of normal (stated of the value just stored, and of
\* the whole trace once the loop has ended); the regions are 10 contiguous
\* runs of length/10 indices, their offsets 0, 10, ..., 90 never decrease
\* with the index.
C11_RegionStructure ==
    /\ (mpc = "gen" /\ alg = "none" /\ j > 0) =>
          RegionValue(j - 1, TRACES_FULL)
    /\ mpc = "generated" =>
          /\ NumRefs(data) = TRACES_FULL
          /\ \A k \in 0..(TRACES_FULL - 1) : RegionValue(k, TRACES_FULL)
          /\ \A r \in 0..9 :
                {k \in 0..(TRACES_FULL - 1) : Region(k, TRACES_FULL) = r}
                  = (r * (TRACES_FULL \div 10))..((r + 1) * (TRACES_FULL \div 10) - 1)

C11_Witness ==
    /\ mpc = "generated"
    /\ j = TRACES_FULL
    /\ data[0] = 9
    /\ data[TRACES_FULL - 1] = 101
    /\ data[TRACES_FULL \div 2] = 59

\* The rows of a complete results file: the header and one row per size.
AllRows == 1 + Cardinality(Sizes)

\* C12: main ends with status 0 exactly when the results file was created,
\* all its rows were written and it was closed; it ends with the nonzero
\* status -1, the message printed, exactly when the file could not be
\* created, and then nothing has been written; main ends in no other way:
\* it has a status only at its exit, it reaches its exit only from the failed
\* fopen or from the end of the output loop, and from the end of the
\* experiments on some step is enabled until then.
C12_ProcessExit ==
    /\ [](mpc # "idle" =>
            /\ mpc = "exit" <=> status # <<>>
            /\ mpc = "next" => ENABLED NextTrial
            /\ mpc = "avg" => ENABLED AverageStep
            /\ mpc = "open" => ENABLED OpenOK /\ ENABLED OpenFail
            /\ mpc = "rows" => ENABLED (WriteRow \/ Exit)
            /\ mpc = "exit" =>
                  /\ status = <<0>> \/ status = <<-1>>
                  /\ status = <<0>> <=> (file = "closed" /\ Len(out) = AllRows)
                  /\ status = <<-1>> <=> file = "null"
                  /\ status = <<-1>> => (diag /\ out = <<>>)
                  /\ status = <<0>> => ~diag
                  /\ status = <<0>> =>
                        \A w \in Sizes :
                            out[w - SET_SIZE_LOWER + 2] =
                                <<w, LRUResults[w], FIFOResults[w],
                                  ClockResults[w]>>
            /\ file \in {"unopened", "null"} => out = <<>>
            /\ diag => file = "null")
    /\ [][(mpc # "exit" /\ mpc' = "exit") =>
             \/ mpc = "open" /\ file' = "null"
             \/ mpc = "rows" /\ wss > SET_SIZE_UPPER /\ file' = "closed"]_vars

C12_Witness ==
    /\ mpc = "exit"
    /\ status = <<-1>>
    /\ diag
    /\ file = "null"
    /\ out = <<>>
    /\ trial = TRIALS
    /\ FIFOResults[SET_SIZE_UPPER] >= 1

\* The resident pages among the references jj..i of the trace.
RecentResident(jj) == {data[m] : m \in jj..i} \cap Resident

\* C13: LRU never uses its victim variable unassigned, and at every LRU miss
\* with the frame full the backward scan from i breaks at an index >= 0: some
\* suffix jj..i of the references processed holds exactly wss distinct
\* resident pages, the scan assigns the victim there, the victim is resident
\* and getIndex finds its slot.
C13_ScanTerminates ==
    /\ [](pc # "none" => ~ub)
    /\ [][(alg = "LRU" /\ Stepped /\ Miss /\ Full) =>
             LET scan == LRUScan(set, wss, data, i, 0, Filled(wss, INT_MIN))
             IN  /\ \E jj \in 0..i :
                       /\ Cardinality(RecentResident(jj)) = wss
                       /\ Cardinality(RecentResident(jj + 1)) = wss - 1
                       /\ scan.lru = data[jj]
                 /\ scan.found
                 /\ scan.lru \in Resident
                 /\ getIndex(set, wss, scan.lru) \in 0..(wss - 1)
                 /\ set[getIndex(set, wss, scan.lru)] = scan.lru
                 /\ ~ub']_vars

\* An LRU fault whose scan went back to index 0: the page of the first
\* reference, not referenced again, is the one replaced.
C13_Witness ==
    /\ alg = "LRU"
    /\ event = "fault"
    /\ ~ub
    /\ wss >= 2
    /\ faults = 1
    /\ data[0] \notin Resident
    /\ \A m \in 1..(i - 2) : data[m] # data[0]
    /\ data # RefTrace

\* C14: in every state of a Clock run the sweep started from the current hand
\* and use-bits makes at most wss iterations, and at every Clock miss with
\* the frame full the sweep executed makes at most wss iterations, clears
\* one bit per iteration (at most wss bits), moves the hand by that many
\* slots and stops at a slot whose use-bit is 0.
C14_SweepTerminates ==
    /\ []((alg = "Clock" /\ pc # "none") =>
             /\ fifoIndex \in 0..(wss - 1)
             /\ ClockSweep(secondChance, fifoIndex, wss).count \in 0..wss)
    /\ [][(alg = "Clock" /\ Stepped /\ Miss /\ Full) =>
             LET sw == ClockSweep(secondChance, fifoIndex, wss)
             IN  /\ sw.count <= wss
                 /\ sw.count = SweepLen
                 /\ Cardinality({m \in 0..(wss - 1) :
                        secondChance[m] # sw.secondChance[m]}) = sw.count
                 /\ sw.fifoIndex = (fifoIndex + sw.count) % wss
                 /\ sw.secondChance[sw.fifoIndex] = 0
                 /\ set'[sw.fifoIndex] = data[i]]_vars

\* A Clock fault met with every use-bit set: both resident pages were hit
\* after the fill, and the sweep made a whole revolution of wss iterations.
C14_Witness ==
    /\ alg = "Clock"
    /\ event = "fault"
    /\ wss = 2
    /\ i = 5
    /\ faults = 1
    /\ data[0] # data[1]
    /\ {data[2], data[3]} = {data[0], data[1]}
    /\ secondChance = Filled(2, 0)
    /\ fifoIndex = 1
    /\ loadTime[0] = 4

\* The indices of an array of n elements.
Capacity(n) == 0..(n - 1)

\* C15: in the experiment run by run, for every size from the lower to the
\* upper bound and every generated trace, the indices used are within the
\* arrays: the policy arrays have wss elements, the cursor is in [0, wss) in
\* every state, set[size] is written only with size in [0, wss), the slots
\* getIndex returns (the LRU victim, the Clock hit) and the slot the sweep
\* stops at are in [0, wss), the ru entries written number at most wss, the
\* trace is read at i and written at j in [0, T), and the accumulators are
\* written at wss in [0, upper bound].
C15_ArrayBounds ==
    /\ [](pc = "loop" =>
             /\ wss \in Sizes
             /\ DOMAIN set = Capacity(wss)
             /\ DOMAIN secondChance = Capacity(wss)
             /\ fifoIndex \in Capacity(wss)
             /\ size \in 0..wss
             /\ i \in 0..NumRefs(data))
    /\ [](DOMAIN data = Capacity(TRACES)
           /\ DOMAIN LRUResults = Capacity(SET_SIZE_UPPER + 1)
           /\ DOMAIN FIFOResults = Capacity(SET_SIZE_UPPER + 1)
           /\ DOMAIN ClockResults = Capacity(SET_SIZE_UPPER + 1))
    /\ [][Stepped =>
             /\ i \in DOMAIN data
             /\ Branch = "fill" => size \in DOMAIN set
             /\ (Branch = "fault" /\ alg = "FIFO") => fifoIndex \in DOMAIN set
             /\ (Branch = "fault" /\ alg = "Clock") =>
                   ClockSweep(secondChance, fifoIndex, wss).fifoIndex
                       \in DOMAIN set
             /\ (Branch = "hit" /\ alg = "Clock") =>
                   getIndex(set, wss, data[i]) \in DOMAIN secondChance
             /\ (Branch = "fault" /\ alg = "LRU") =>
                   /\ getIndex(set, wss,
                          LRUScan(set, wss, data, i, 0,
                                  Filled(wss, INT_MIN)).lru) \in DOMAIN set
                   /\ \A m \in 0..i :
                         data[m] \in Resident =>
                             Cardinality(RecentResident(m)) - 1 \in Capacity(wss)]_vars
    /\ [][(mpc = "gen" /\ data' # data) => j \in DOMAIN data]_vars
    /\ [][contrib' # contrib => wss \in DOMAIN LRUResults]_vars

\* A FIFO fault at the largest size that wraps the cursor from the last slot
\* back to slot 0.
C15_Witness ==
    /\ mpc = "fifo"
    /\ alg = "FIFO"
    /\ wss = SET_SIZE_UPPER
    /\ event = "fault"
    /\ faults = wss
    /\ fifoIndex = 0
    /\ contrib["LRU"][wss] = 1

\* The accumulator of policy p.
Results(p) ==
    CASE p = "LRU"   -> LRUResults
      [] p = "FIFO"  -> FIFOResults
      [] p = "Clock" -> ClockResults

\* C16: in the experiment run by run, the trace changes only in the
\* generation loop, so no step of a policy run writes it and every run of
\* the experiment reads the same trace; every run starts from freshly
\* initialised locals, whatever the run before left; the value every run
\* returns is the value of the policy as a function of (wss, trace), which
\* is also the value computed for it when the trace was generated, before
\* any run; and at the end of the experiment every accumulator cell holds
\* that value.
C16_ReadOnlyTrace ==
    /\ [][mpc # "gen" => data' = data]_vars
    /\ [][(pc = "none" /\ pc' = "loop") =>
             /\ Cur' = InitState(wss)
             /\ i' = 0
             /\ data' = data /\ wss' = wss]_vars
    /\ [](pc = "done" =>
             /\ ret = RunFrom(alg, InitState(wss), wss, data, 0).faults
             /\ ret = expSum[alg][wss])
    /\ [](mpc = "next" =>
             \A p \in Policies : \A w \in Sizes :
                 Results(p)[w] = RunFrom(p, InitState(w), w, data, 0).faults)

\* The last run of the experiment has returned a nonzero count, after runs
\* that left faults counted and the cursor moved in their own locals.
C16_Witness ==
    /\ pc = "done"
    /\ alg = "Clock"
    /\ mpc = "clock"
    /\ wss = SET_SIZE_UPPER
    /\ ret >= 1
    /\ fifoIndex # 0
    /\ FIFOResults[wss] >= 1
    /\ LRUResults[SET_SIZE_LOWER] > LRUResults[wss]

\* C17 as stated: an accumulator cell is written only when no policy run of
\* the experiment remains to be executed.
C17_Original ==
    [][contrib' # contrib => mpc' = "next"]_vars

\* The runs of (policy, size) pairs accumulated so far are those before
\* position (a, w) of the size loop, in the order LRU, FIFO, Clock for each
\* size in turn.
DoneBefore(a, w) ==
    /\ \A p \in Policies : \A v \in Sizes :
          /\ v < w => contrib[p][v] = 1
          /\ v > w => contrib[p][v] = 0
    /\ contrib["LRU"][w] = (IF a = "LRU" THEN 0 ELSE 1)
    /\ contrib["FIFO"][w] = (IF a = "Clock" THEN 1 ELSE 0)
    /\ contrib["Clock"][w] = 0

\* C17 as the code has it: every accumulator cell is written as soon as the
\* policy run that produced its value has returned and before the next run
\* starts: the write adds the returned value to the cell of the policy just
\* run for the current size, with no run in progress; the runs of the later
\* policies of the same size and of the larger sizes are still to be
\* executed, except at the last write of the experiment (Clock at the upper
\* bound); and while a run is in progress the cells of the runs before it
\* are already written.
C17_InterleavedUpdates ==
    /\ [][contrib' # contrib =>
             /\ pc = "done" /\ pc' = "none"
             /\ DoneBefore(alg, wss)
             /\ contrib' = [contrib EXCEPT ![alg][wss] = 1]
             /\ Results(alg)' = [Results(alg) EXCEPT ![wss] = @ + ret]
             /\ \A p \in Policies \ {alg} : Results(p)' = Results(p)
             /\ mpc' = "next" <=> (alg = "Clock" /\ wss = SET_SIZE_UPPER)]_vars
    /\ [][(LRUResults' # LRUResults \/ FIFOResults' # FIFOResults
            \/ ClockResults' # ClockResults) => contrib' # contrib]_vars
    /\ [](pc \in {"loop", "done"} => DoneBefore(alg, wss))

\* FIFO runs for the smallest size while the cell of LRU for that size
\* already holds the nonzero count of this experiment.
C17_Witness ==
    /\ pc = "loop"
    /\ alg = "FIFO"
    /\ mpc = "fifo"
    /\ wss = SET_SIZE_LOWER
    /\ i >= 1
    /\ contrib["LRU"][wss] = 1
    /\ LRUResults[wss] >= 1
    /\ contrib["FIFO"][wss] = 0
    /\ contrib["Clock"][wss] = 0

\* C18: on every trace the count LRU returns with wss + 1 slots is at most
\* the count it returns with wss slots (the returned value being the count
\* of the run just executed).
C18_LRUMonotone ==
    (pc = "done" /\ alg = "LRU") =>
        /\ ret = LRU(wss, data)
        /\ LRU(wss + 1, data) <= ret

\* On the 12-reference example one more slot strictly lowers the count of
\* LRU, from 7 to 4, and neither run is free of faults.
C18_Witness ==
    /\ pc = "done"
    /\ alg = "LRU"
    /\ data = RefTrace
    /\ wss = 3
    /\ ret = 7
    /\ LRU(wss + 1, data) = 4

\* The smaller of two numbers.
Min(a, b) == IF a <= b THEN a ELSE b

\* C19: in every state of a policy run the occupied slots are exactly the
\* slots 0..size-1, size is the smaller of wss and the number of distinct
\* pages referenced so far, and the references that missed are the faults
\* counted plus the size slots filled; size never decreases and a full frame
\* stays full; at return the misses are the returned count plus
\* min(wss, distinct pages of the trace) and the returned count is at most
\* T - min(wss, distinct pages).
C19_FillAccounting ==
    /\ [](pc # "none" =>
             /\ Occupied = 0..(size - 1)
             /\ size = Min(wss, Cardinality(Seen(i)))
             /\ misses = faults + size
             /\ pc = "done" =>
                   /\ misses = ret + Min(wss, Distinct)
                   /\ ret <= NumRefs(data) - Min(wss, Distinct))
    /\ [][/\ size' >= size
           /\ Full => Full']_vars

\* A run in which every reference misses: the returned count attains
\* T - wss, with more distinct pages than slots.
C19_Witness ==
    /\ pc = "done"
    /\ alg = "FIFO"
    /\ wss = 2
    /\ Distinct > wss
    /\ misses = NumRefs(data)
    /\ ret = NumRefs(data) - wss
    /\ data # RefTrace

====
